---- MODULE Spec2Model ----
(***************************************************************************)
(* Model of the update supervisor: the progress/phase state machine of     *)
(* MainWindow (ui/main_window.py), the command surface of DBusWorker       *)
(* (services/dbus_worker.py) and the consent notifications of              *)
(* AktualizrClient (services/aktualizr_client.py).                         *)
(*                                                                         *)
(* phase_progress is kept in half-percent units (the Stage A step of 0.5   *)
(* is one unit), so 50% is 100 and 95% is 190; every other percentage      *)
(* (raw values, starting_pct, last_raw_pct, targets) is in whole percent.  *)
(* starting_pct is << >> for None and <<p>> for the integer p.             *)
(*                                                                         *)
(* QMessageBox.exec() runs a nested event loop on the UI thread: queued    *)
(* worker signals and timers are still dispatched while a box is open,     *)
(* clicks on the window behind it are not.  `modals` is the stack of open  *)
(* boxes, i.e. of handler frames suspended inside exec().                  *)
(***************************************************************************)
EXTENDS Integers, Sequences, FiniteSets, TLC

\* Bounds of the model.
MaxModals == 2
MaxCmds == 1
\* The polls of the wait for the log file (60 in the code), the lines of the
\* backlog replay (300 in the code), the lines the log ever has.
WaitPolls == 2
BACKLOG_LINES == 2
MaxLines == 3

VARIABLES
    \* MainWindow fields
    phase, phase_progress, starting_pct, last_raw_pct, reboot_prompt_shown,
    manual_check_active, phase_timer, check_timeout, ui_locked, info, net_label,
    modals,
    \* DBusWorker: the asyncio loop (with the position of main() in it), the
    \* coroutines scheduled on it, the check_for_updates coroutines suspended
    \* before their re-read, the network-sampling task
    loop, cmds, rereads, net_task,
    \* the network task's prev_total (-1 until the counters are first read)
    net_prev,
    \* the log-tail task: its position, the polls it has slept through (the
    \* loop variable of the wait, 0 once the wait is over), the number of lines
    \* its live reader has consumed
    log_task, polls, tail_pos,
    \* the environment of the log tail: whether the log file exists, and its
    \* lines (Spec leaves the content of the log open and keeps this empty)
    log_exists, log_lines,
    \* the events the worker thread has emitted to MainWindow that the UI
    \* thread has not handled yet (queued connections), oldest first
    posted,
    \* observation: consent boxes opened since the last accepted check click;
    \* reboot prompts opened, and whether a completion marker (download_complete,
    \* install_started, install_complete, need_reboot) was processed, since
    \* the state machine was last reset (reset_progress_state, start_update_flow)
    consent_modals, reboot_prompts, completion_seen,
    \* observation of the worker: status_ready and error signals emitted, whether
    \* the reboot helper process was ever launched, the number of lines the
    \* file had at the backlog read (-1 before it), the line numbers of the
    \* log events emitted and of those handled, in order
    status_ready_emitted, errors, helper_launched, backlog_end, emitted, handled,
    \* the last sample the network task emitted (<< >> before the first), in
    \* units of 1/1024 KB/s; the rebootNow requests: the reboot_started signals
    \* emitted for requests that have not run yet, and the helper launches and
    \* reboot_failed signals of the request that ran last; the last PropertiesChanged signal received
    \* and the signals the worker emitted for it (<< >> before the first)
    net_sample, reboot, notified

uiVars == <<phase, phase_progress, starting_pct, last_raw_pct, reboot_prompt_shown,
            manual_check_active, phase_timer, check_timeout, ui_locked, info,
            net_label, modals>>
\* The log-tail task, its file, and what it has emitted.
logVars == <<log_task, polls, tail_pos, log_exists, log_lines, posted,
             backlog_end, emitted, handled>>
\* The network task.
netVars == <<net_task, net_prev, net_sample>>
workerVars == <<loop, cmds, rereads, netVars, logVars>>
obsVars == <<consent_modals, reboot_prompts, completion_seen>>
\* Observation of the worker's signals and of the helper process.
sigVars == <<status_ready_emitted, errors, helper_launched, reboot, notified>>
vars == <<uiVars, workerVars, obsVars, sigVars>>

Phases == {"idle", "preparing", "downloading", "downloaded", "installing", "need_reboot"}
Markers == {"download_complete", "install_started", "need_reboot", "install_complete", "rebooting"}
\* Raw percentages the log tail emits in Spec (SpecRaw uses all of 0..100).
RawValues == {10, 30, 75, 82, 100}
AllRaw == 0..100
\* Kinds of non-empty ConsentRequired payload: JSON with at least one target,
\* JSON whose "targets" is empty or missing, and text json.loads rejects.
Payloads == {"targets", "no_targets", "malformed"}

Min(a, b) == IF a < b THEN a ELSE b
Max(a, b) == IF a > b THEN a ELSE b

\* The MainWindow fields the phase transitions touch, as one record.
UI == [phase |-> phase, phase_progress |-> phase_progress,
       starting_pct |-> starting_pct, last_raw_pct |-> last_raw_pct,
       reboot_prompt_shown |-> reboot_prompt_shown, phase_timer |-> phase_timer,
       ui_locked |-> ui_locked, info |-> info, net_label |-> net_label]

SetUI(s) ==
    /\ phase' = s.phase
    /\ phase_progress' = s.phase_progress
    /\ starting_pct' = s.starting_pct
    /\ last_raw_pct' = s.last_raw_pct
    /\ reboot_prompt_shown' = s.reboot_prompt_shown
    /\ phase_timer' = s.phase_timer
    /\ ui_locked' = s.ui_locked
    /\ info' = s.info
    /\ net_label' = s.net_label

\* Mutant: the list of active phases stops at "downloaded".
is_update_flow_active_short(s) ==
    s.phase \in {"preparing", "downloading", "downloaded"}

is_update_flow_active(s) ==
    s.phase \in {"preparing", "downloading", "downloaded", "installing", "need_reboot"}

lock_ui(s, locked) == [s EXCEPT !.ui_locked = locked]

\* target in percent, step in half-percent units
advance_to_target(s, target, step) ==
    LET t == 2 * Max(0, Min(100, target))
    IN  IF t > s.phase_progress
        THEN [s EXCEPT !.phase_progress = Min(s.phase_progress + step, t)]
        ELSE s

\* Mutant: the comparison of the floor is inverted.
set_progress_floor_inverted(s, value) ==
    LET v == 2 * Max(0, Min(100, value))
    IN  IF v < s.phase_progress THEN [s EXCEPT !.phase_progress = v] ELSE s

set_progress_floor(s, value) ==
    LET v == 2 * Max(0, Min(100, value))
    IN  IF v > s.phase_progress THEN [s EXCEPT !.phase_progress = v] ELSE s

reset_progress_math(s) == [s EXCEPT !.starting_pct = << >>, !.last_raw_pct = -1]

reset_progress_state(s) ==
    lock_ui([reset_progress_math([s EXCEPT !.phase = "idle",
                                           !.phase_progress = 0,
                                           !.reboot_prompt_shown = FALSE])
                EXCEPT !.net_label = "", !.phase_timer = FALSE], FALSE)

start_update_flow(s) ==
    [lock_ui(reset_progress_math([s EXCEPT !.phase = "preparing",
                                           !.phase_progress = 0,
                                           !.reboot_prompt_shown = FALSE]), TRUE)
        EXCEPT !.net_label = "Measuring network activity...",
               !.info = "Preparing update (checking metadata)...",
               !.phase_timer = TRUE]

\* Mutant: the synthetic timer is left running.
switch_to_downloading_keeps_timer(s) ==
    IF s.phase = "downloading" THEN s
    ELSE [s EXCEPT !.phase = "downloading", !.info = "Downloading update..."]

switch_to_downloading(s) ==
    IF s.phase = "downloading" THEN s
    ELSE [s EXCEPT !.phase_timer = FALSE, !.phase = "downloading",
                   !.info = "Downloading update..."]

\* Mutant: the progress is not raised to 95.
switch_to_installing_no_floor(s) ==
    IF s.phase = "installing" THEN s
    ELSE [s EXCEPT !.phase_timer = FALSE, !.phase = "installing",
                   !.info = "Applying update..."]

switch_to_installing(s) ==
    IF s.phase = "installing" THEN s
    ELSE [set_progress_floor([s EXCEPT !.phase_timer = FALSE, !.phase = "installing"], 95)
            EXCEPT !.info = "Applying update..."]

\* What is known of the rebootNow requests: none was made.
NoReboot == [started |-> 0, launched |-> 0, failed |-> 0]

Init ==
    /\ phase = "idle"
    /\ phase_progress = 0
    /\ starting_pct = << >>
    /\ last_raw_pct = -1
    /\ reboot_prompt_shown = FALSE
    /\ manual_check_active = FALSE
    /\ phase_timer = FALSE
    /\ check_timeout = FALSE
    /\ ui_locked = FALSE
    /\ info = "Connecting to Aktualizr..."
    /\ net_label = ""
    /\ modals = << >>
    /\ loop = "none"
    /\ cmds = << >>
    /\ rereads = 0
    /\ net_task = "none"
    /\ net_prev = -1
    /\ net_sample = << >>
    /\ reboot = NoReboot
    /\ notified = << >>
    /\ log_task = "none"
    /\ polls = 0
    /\ tail_pos = 0
    /\ log_exists = FALSE
    /\ log_lines = << >>
    /\ posted = << >>
    /\ consent_modals = 0
    /\ reboot_prompts = 0
    /\ completion_seen = FALSE
    /\ status_ready_emitted = 0
    /\ errors = 0
    /\ helper_launched = FALSE
    /\ backlog_end = -1
    /\ emitted = << >>
    /\ handled = << >>

\* ------------------------------------------------------------------------
\* MainWindow slots.  Each is one action: the whole handler, up to the point
\* where it blocks in QMessageBox.exec() (the rest of such a handler is the
\* action that answers the box).
\* ------------------------------------------------------------------------

\* The variables a slot leaves alone unless it says otherwise.
WorkerSame == UNCHANGED <<workerVars, sigVars>>

\* Mutant: the step of _advance_to_target is left at its default of 1.0.
on_phase_tick_whole_step ==
    /\ phase_timer
    /\ SetUI(IF UI.phase # "preparing" THEN UI
             ELSE IF UI.phase_progress < 2 * 50 THEN advance_to_target(UI, 50, 2)
             ELSE UI)
    /\ UNCHANGED <<manual_check_active, check_timeout, modals, obsVars>>
    /\ WorkerSame

on_phase_tick ==
    /\ phase_timer
    /\ SetUI(IF UI.phase # "preparing" THEN UI
             ELSE IF UI.phase_progress < 2 * 50 THEN advance_to_target(UI, 50, 1)
             ELSE UI)
    /\ UNCHANGED <<manual_check_active, check_timeout, modals, obsVars>>
    /\ WorkerSame

\* asyncio.run_coroutine_threadsafe(coro, self.loop): with self.loop still
\* None the call raises and the slot is abandoned at that line; on a loop
\* that has stopped running the coroutine is queued and never run.
Schedule(cmd) == cmds' = Append(cmds, cmd)

on_mode_toggled(checked) ==
    /\ modals = << >>
    /\ ~ui_locked
    /\ IF is_update_flow_active(UI) /\ phase # "idle"
       THEN /\ info' = "An update is in progress. Mode cannot be changed now."
            /\ UNCHANGED cmds
       ELSE IF loop = "none"
       THEN UNCHANGED <<info, cmds>>
       ELSE /\ Len(cmds) < MaxCmds
            /\ Schedule([op |-> "setMode", arg |-> IF checked THEN 1 ELSE 0])
            /\ info' = IF checked THEN "Mode: Require consent" ELSE "Mode: Automatic"
    /\ UNCHANGED <<phase, phase_progress, starting_pct, last_raw_pct, net_label,
                   reboot_prompt_shown, manual_check_active, phase_timer,
                   check_timeout, ui_locked, modals, loop, rereads, netVars,
                   logVars, obsVars, sigVars>>

on_check_clicked ==
    /\ modals = << >>
    /\ ~ui_locked
    /\ IF is_update_flow_active(UI) /\ phase # "idle"
       THEN /\ info' = "An update is already in progress."
            /\ UNCHANGED <<manual_check_active, cmds, check_timeout, consent_modals>>
       ELSE /\ manual_check_active' = TRUE
            /\ info' = "Checking for updates on the server..."
            /\ consent_modals' = 0
            /\ IF loop = "none"
               THEN UNCHANGED <<cmds, check_timeout>>
               ELSE /\ Len(cmds) < MaxCmds
                    /\ Schedule([op |-> "checkForUpdates", arg |-> 0])
                    /\ check_timeout' = TRUE
    /\ UNCHANGED <<phase, phase_progress, starting_pct, last_raw_pct, net_label,
                   reboot_prompt_shown, phase_timer, ui_locked, modals,
                   loop, rereads, netVars, logVars, reboot_prompts,
                   completion_seen, sigVars>>

\* Mutant: the timeout leaves manual_check_active as it is.
on_check_timeout_keeps_check ==
    /\ check_timeout
    /\ check_timeout' = FALSE
    /\ SetUI(IF phase = "idle"
             THEN reset_progress_state([UI EXCEPT !.info = "No updates found."])
             ELSE UI)
    /\ reboot_prompts' = IF phase = "idle" THEN 0 ELSE reboot_prompts
    /\ completion_seen' = IF phase = "idle" THEN FALSE ELSE completion_seen
    /\ UNCHANGED <<manual_check_active, modals, consent_modals>>
    /\ UNCHANGED <<workerVars, sigVars>>

on_check_timeout ==
    /\ check_timeout
    /\ check_timeout' = FALSE
    /\ SetUI(IF phase = "idle"
             THEN reset_progress_state([UI EXCEPT !.info = "No updates found."])
             ELSE UI)
    /\ manual_check_active' = FALSE
    /\ reboot_prompts' = IF phase = "idle" THEN 0 ELSE reboot_prompts
    /\ completion_seen' = IF phase = "idle" THEN FALSE ELSE completion_seen
    /\ UNCHANGED <<modals, consent_modals>>
    /\ WorkerSame

\* parse_consent_required: the number of targets (capped at 1, only the
\* first is shown), or a raised exception for text that is not a JSON object.
parse_consent_required(raw) ==
    [raises |-> raw = "malformed", targets |-> IF raw = "targets" THEN 1 ELSE 0]

\* The slot up to box.exec().  Leaves the worker's variables to the caller.
on_consent_required(raw) ==
    /\ check_timeout' = FALSE
    /\ IF ~manual_check_active
       THEN /\ info' = "An update is available (pending consent)."
            /\ UNCHANGED <<manual_check_active, modals, consent_modals>>
       ELSE IF parse_consent_required(raw).raises
       THEN UNCHANGED <<info, manual_check_active, modals, consent_modals>>
       ELSE IF parse_consent_required(raw).targets = 0
       THEN /\ manual_check_active' = FALSE
            /\ UNCHANGED <<info, modals, consent_modals>>
       ELSE /\ Len(modals) < MaxModals
            /\ modals' = Append(modals, "consent")
            /\ consent_modals' = consent_modals + 1
            /\ UNCHANGED <<info, manual_check_active>>
    /\ UNCHANGED <<phase, phase_progress, starting_pct, last_raw_pct, net_label,
                   reboot_prompt_shown, phase_timer, ui_locked, reboot_prompts,
                   completion_seen>>

Top(st) == st[Len(st)]
Pop(st) == SubSeq(st, 1, Len(st) - 1)

\* Mutant: a refusal is not reported to the agent.
ConsentAnswered_refusal_silent(yes) ==
    /\ modals # << >>
    /\ Top(modals) = "consent"
    /\ modals' = Pop(modals)
    /\ Len(cmds) < MaxCmds
    /\ IF yes
       THEN /\ SetUI(start_update_flow(UI))
            /\ reboot_prompts' = 0
            /\ completion_seen' = FALSE
            /\ cmds' = Append(cmds, [op |-> "sendConsent", arg |-> 1])
       ELSE /\ SetUI([UI EXCEPT !.info = "Update refused."])
            /\ UNCHANGED <<reboot_prompts, completion_seen, cmds>>
    /\ manual_check_active' = FALSE
    /\ UNCHANGED <<check_timeout, consent_modals, loop, rereads, netVars,
                   logVars, sigVars>>

\* The rest of on_consent_required, after box.exec() returns ret.
ConsentAnswered(yes) ==
    /\ modals # << >>
    /\ Top(modals) = "consent"
    /\ modals' = Pop(modals)
    /\ Len(cmds) < MaxCmds
    /\ IF yes
       THEN /\ SetUI(start_update_flow(UI))
            /\ reboot_prompts' = 0
            /\ completion_seen' = FALSE
            /\ Schedule([op |-> "sendConsent", arg |-> 1])
       ELSE /\ SetUI([UI EXCEPT !.info = "Update refused."])
            /\ UNCHANGED <<reboot_prompts, completion_seen>>
            /\ Schedule([op |-> "sendConsent", arg |-> 0])
    /\ manual_check_active' = FALSE
    /\ UNCHANGED <<check_timeout, consent_modals, loop, rereads, netVars,
                   logVars, sigVars>>

on_consent_cleared ==
    /\ info' = IF phase \in {"preparing", "downloading"}
               THEN "Consent sent. Waiting for download to complete..."
               ELSE info
    /\ UNCHANGED <<phase, phase_progress, starting_pct, last_raw_pct, net_label,
                   reboot_prompt_shown, manual_check_active, phase_timer,
                   check_timeout, ui_locked, modals, obsVars>>

\* A line of the log, by what process_line finds in it: whether it is empty
\* after strip(), the patterns it matches (each is searched anywhere in the
\* line, so a line can match several), and the digits captured by the two
\* percentage patterns.  Every line need_reboot_re matches is matched by
\* install_complete_re too, and an empty line matches nothing.
LinePatterns == <<"download_complete", "ostree_receiving_objects", "progress",
                  "install_started", "need_reboot", "install_complete", "reboot">>
PatternSet == {LinePatterns[i] : i \in 1..Len(LinePatterns)}

Line(blank, matches, obj, prog) ==
    [blank |-> blank, matches |-> matches, obj |-> obj, prog |-> prog]

\* The lines of the log in SpecWorker: a download-complete line, a
\* NEED_COMPLETION line, a percentage, a line that matches nothing.
LogLines ==
    {Line(FALSE, {"download_complete"}, 0, 0),
     Line(FALSE, {"need_reboot", "install_complete"}, 0, 0),
     Line(FALSE, {"progress"}, 0, 75),
     Line(FALSE, {}, 0, 0)}

\* The numbers the digits of a percentage pattern can stand for.
Captured == {0, 7, 100, 250}

\* Every kind of line: the empty one, and every set of patterns with every
\* captured number.
AllLines ==
    {Line(TRUE, {}, 0, 0)} \cup
    {Line(FALSE, m, o, g) :
        m \in {x \in SUBSET PatternSet :
                    "need_reboot" \in x => "install_complete" \in x},
        o \in Captured, g \in Captured}

\* Mutant: the quotient is an integer division, taken before the product.
scaled_i_int_division(start, raw_progress) ==
    LET denom == Max(1, 100 - start)
        scaled == start + ((raw_progress - start) \div denom) * (94 - start)
    IN  IF scaled >= 95 THEN 94 ELSE scaled

\* Mutant: the result is not capped at 94.
scaled_i_uncapped(start, raw_progress) ==
    start + ((raw_progress - start) * (94 - start)) \div Max(1, 100 - start)

\* start + ((raw - start) / denom) * (94 - start), truncated by int().  The
\* value is positive for every start in 51..100 and raw in 0..100, so int()
\* is the floor, and the float result equals the exact one on that range.
scaled_i(start, raw_progress) ==
    LET denom == Max(1, 100 - start)
        scaled == start + ((raw_progress - start) * (94 - start)) \div denom
    IN  IF scaled >= 95 THEN 94 ELSE scaled

\* Mutant: a value of exactly 50 counts as real progress.
download_progress_raw_50_is_real(s, raw) ==
    LET raw_progress == Max(0, Min(100, raw))
        s1 == [s EXCEPT !.last_raw_pct = raw_progress]
        s2 == IF s1.phase # "downloading" THEN switch_to_downloading(s1) ELSE s1
    IN  IF s.phase = "idle" THEN s
        ELSE IF raw_progress < s.last_raw_pct THEN s
        ELSE IF raw_progress < 50 THEN s1
        ELSE IF s2.starting_pct = << >>
        THEN [set_progress_floor([s2 EXCEPT !.starting_pct = <<raw_progress>>],
                                 Min(raw_progress, 94))
                EXCEPT !.info = "Downloading update... %"]
        ELSE [set_progress_floor(s2, scaled_i(s2.starting_pct[1], raw_progress))
                EXCEPT !.info = "Downloading update... %"]

\* Mutant: a value equal to the last accepted one is discarded too.
download_progress_raw_strict(s, raw) ==
    LET raw_progress == Max(0, Min(100, raw))
        s1 == [s EXCEPT !.last_raw_pct = raw_progress]
        s2 == IF s1.phase # "downloading" THEN switch_to_downloading(s1) ELSE s1
    IN  IF s.phase = "idle" THEN s
        ELSE IF raw_progress <= s.last_raw_pct THEN s
        ELSE IF raw_progress <= 50 THEN s1
        ELSE IF s2.starting_pct = << >>
        THEN [set_progress_floor([s2 EXCEPT !.starting_pct = <<raw_progress>>],
                                 Min(raw_progress, 94))
                EXCEPT !.info = "Downloading update... %"]
        ELSE [set_progress_floor(s2, scaled_i(s2.starting_pct[1], raw_progress))
                EXCEPT !.info = "Downloading update... %"]

\* Mutant: the first real value is recorded but does not move the bar.
download_progress_raw_first_unfloored(s, raw) ==
    LET raw_progress == Max(0, Min(100, raw))
        s1 == [s EXCEPT !.last_raw_pct = raw_progress]
        s2 == IF s1.phase # "downloading" THEN switch_to_downloading(s1) ELSE s1
    IN  IF s.phase = "idle" THEN s
        ELSE IF raw_progress < s.last_raw_pct THEN s
        ELSE IF raw_progress <= 50 THEN s1
        ELSE IF s2.starting_pct = << >>
        THEN [s2 EXCEPT !.starting_pct = <<raw_progress>>,
                        !.info = "Downloading update... %"]
        ELSE [set_progress_floor(s2, scaled_i(s2.starting_pct[1], raw_progress))
                EXCEPT !.info = "Downloading update... %"]

download_progress_raw(s, raw) ==
    LET raw_progress == Max(0, Min(100, raw))
        s1 == [s EXCEPT !.last_raw_pct = raw_progress]
        s2 == IF s1.phase # "downloading" THEN switch_to_downloading(s1) ELSE s1
    IN  IF s.phase = "idle" THEN s
        ELSE IF raw_progress < s.last_raw_pct THEN s
        ELSE IF raw_progress <= 50 THEN s1
        ELSE IF s2.starting_pct = << >>
        THEN [set_progress_floor([s2 EXCEPT !.starting_pct = <<raw_progress>>],
                                 Min(raw_progress, 94))
                EXCEPT !.info = "Downloading update... %"]
        ELSE [set_progress_floor(s2, scaled_i(s2.starting_pct[1], raw_progress))
                EXCEPT !.info = "Downloading update... %"]

on_download_progress_raw(raw) ==
    /\ SetUI(download_progress_raw(UI, raw))
    /\ UNCHANGED <<manual_check_active, check_timeout, modals, obsVars>>

\* Mutant: the guard flag is not set when the box opens.
show_reboot_prompt_unguarded(s) == s

\* _show_reboot_prompt up to box.exec(): the guard flag is set before the
\* box opens.
show_reboot_prompt(s) ==
    IF s.reboot_prompt_shown THEN s ELSE [s EXCEPT !.reboot_prompt_shown = TRUE]

\* Mutant: download_complete changes the phase but does not raise the bar.
phase_event_complete_unfloored(s, event) ==
    IF event = "download_complete"
    THEN [s EXCEPT !.phase_timer = FALSE, !.phase = "downloaded",
                   !.info = "Download completed. Applying update..."]
    ELSE IF s.phase = "idle" THEN s
    ELSE IF event = "install_started" THEN switch_to_installing(s)
    ELSE IF event = "need_reboot"
    THEN show_reboot_prompt(
            [lock_ui(switch_to_installing([s EXCEPT !.phase = "need_reboot",
                                                    !.phase_timer = FALSE]), FALSE)
                EXCEPT !.info = "Update ready. Reboot required."])
    ELSE IF event = "install_complete" THEN switch_to_installing(s)
    ELSE IF event = "rebooting"
    THEN [s EXCEPT !.info = "Rebooting to apply the update..."]
    ELSE s

phase_event(s, event) ==
    IF event = "download_complete"
    THEN [set_progress_floor([s EXCEPT !.phase_timer = FALSE, !.phase = "downloaded"], 95)
            EXCEPT !.info = "Download completed. Applying update..."]
    ELSE IF s.phase = "idle" THEN s
    ELSE IF event = "install_started" THEN switch_to_installing(s)
    ELSE IF event = "need_reboot"
    THEN show_reboot_prompt(
            [lock_ui(switch_to_installing([s EXCEPT !.phase = "need_reboot",
                                                    !.phase_timer = FALSE]), FALSE)
                EXCEPT !.info = "Update ready. Reboot required."])
    ELSE IF event = "install_complete" THEN switch_to_installing(s)
    ELSE IF event = "rebooting"
    THEN [s EXCEPT !.info = "Rebooting to apply the update..."]
    ELSE s

\* Whether on_phase_event(event) reaches box.exec() of the reboot prompt.
OpensRebootPrompt(event) ==
    event = "need_reboot" /\ phase # "idle" /\ ~reboot_prompt_shown

on_phase_event(event) ==
    /\ SetUI(phase_event(UI, event))
    /\ IF OpensRebootPrompt(event)
       THEN /\ Len(modals) < MaxModals
            /\ modals' = Append(modals, "reboot")
            /\ reboot_prompts' = reboot_prompts + 1
       ELSE UNCHANGED <<modals, reboot_prompts>>
    /\ completion_seen' =
          (completion_seen \/ event = "download_complete"
             \/ (phase # "idle" /\ event \in {"install_started", "need_reboot",
                                              "install_complete"}))
    /\ UNCHANGED <<manual_check_active, check_timeout, consent_modals>>

\* DBusWorker.reboot_now: reboot_started is emitted, then _reboot_via_dbus is
\* scheduled on the worker's loop.
reboot_now ==
    /\ reboot' = [reboot EXCEPT !.started = @ + 1]
    /\ Schedule([op |-> "rebootNow", arg |-> 0])

\* The rest of _show_reboot_prompt, after box.exec() returns ret.
\* worker.reboot_now() emits reboot_started (on_reboot_started runs at once,
\* both ends live on the UI thread) and schedules _reboot_via_dbus.
RebootAnswered(yes) ==
    /\ modals # << >>
    /\ Top(modals) = "reboot"
    /\ modals' = Pop(modals)
    /\ IF yes
       THEN /\ Len(cmds) < MaxCmds
            /\ reboot_now
            /\ info' = "Rebooting to complete the update..."
       ELSE /\ info' = "Reboot postponed."
            /\ UNCHANGED <<cmds, reboot>>
    /\ UNCHANGED <<phase, phase_progress, starting_pct, last_raw_pct, net_label,
                   reboot_prompt_shown, manual_check_active, phase_timer,
                   check_timeout, ui_locked, loop, rereads, netVars, logVars,
                   obsVars, status_ready_emitted, errors, helper_launched,
                   notified>>

\* on_reboot_failed up to err_box.exec().
on_reboot_failed ==
    /\ Len(modals) < MaxModals
    /\ modals' = Append(modals, "reboot_failed")
    /\ info' = "Reboot failed."
    /\ UNCHANGED <<phase, phase_progress, starting_pct, last_raw_pct, net_label,
                   reboot_prompt_shown, manual_check_active, phase_timer,
                   check_timeout, ui_locked, obsVars>>

RebootFailedAnswered ==
    /\ modals # << >>
    /\ Top(modals) = "reboot_failed"
    /\ modals' = Pop(modals)
    /\ UNCHANGED <<phase, phase_progress, starting_pct, last_raw_pct, net_label,
                   reboot_prompt_shown, manual_check_active, phase_timer,
                   check_timeout, ui_locked, info, obsVars>>
    /\ WorkerSame

on_status_ready(mode) ==
    /\ info' = IF mode = 1 THEN "Mode: Require consent" ELSE "Mode: Automatic"
    /\ UNCHANGED <<phase, phase_progress, starting_pct, last_raw_pct, net_label,
                   reboot_prompt_shown, manual_check_active, phase_timer,
                   check_timeout, ui_locked, modals, obsVars>>

\* Mutant: the slot shows the error and leaves the state machine as it is.
on_error_keeps_state ==
    /\ SetUI([UI EXCEPT !.info = "Failed to connect to D-Bus / Aktualizr."])
    /\ UNCHANGED <<reboot_prompts, completion_seen>>
    /\ UNCHANGED <<manual_check_active, check_timeout, modals, consent_modals>>

\* The slot of the worker's error signal; it ends with reset_progress_state.
on_error ==
    /\ SetUI(reset_progress_state(
                [UI EXCEPT !.info = "Failed to connect to D-Bus / Aktualizr."]))
    /\ reboot_prompts' = 0
    /\ completion_seen' = FALSE
    /\ UNCHANGED <<manual_check_active, check_timeout, modals, consent_modals>>

\* The slot of network_activity: the label is one of three formats.  kbps is
\* in units of 1/1024 KB/s (the sample is a number of bytes divided by 1024.0,
\* which is exact), so 1.0 is 1024 and 1024.0 is 1024 * 1024.
on_network_activity(kbps) ==
    /\ net_label' = IF ~is_update_flow_active(UI) THEN net_label
                    ELSE IF kbps < 1024 THEN "Network activity: < 1 KB/s"
                    ELSE IF kbps < 1024 * 1024 THEN "Network activity: KB/s"
                    ELSE "Network activity: MB/s"
    /\ UNCHANGED <<phase, phase_progress, starting_pct, last_raw_pct,
                   reboot_prompt_shown, manual_check_active, phase_timer,
                   check_timeout, ui_locked, info, modals, obsVars>>

UISame == UNCHANGED <<uiVars, obsVars>>

\* ------------------------------------------------------------------------
\* DBusWorker and AktualizrClient.  In Spec a signal the worker emits is
\* handled by its MainWindow slot in the same step: the slots are the only
\* readers of the signals, so the states MainWindow can reach are those of
\* any delivery of the queued signals.  SpecWorker keeps the events of the
\* log tail in the queue of the UI thread (posted) until they are handled.
\* ------------------------------------------------------------------------

\* DBusWorker.run: the loop is created and main() runs up to the first await
\* of client.connect().  loop is the position of main(): "connecting" inside
\* connect(), "reading" inside get_status() (the callback is registered),
\* "running" at the final await, "stopped" once main() has returned.
WorkerRuns ==
    /\ loop = "none"
    /\ loop' = "connecting"
    /\ UISame
    /\ UNCHANGED <<cmds, rereads, netVars, logVars, sigVars>>

\* Mutant: the two tasks are created as soon as the client is connected.
WorkerConnects_launches_tasks ==
    /\ loop = "connecting"
    /\ loop' = "reading"
    /\ log_task' = "waiting"
    /\ net_task' = "running"
    /\ UNCHANGED <<uiVars, obsVars>>
    /\ UNCHANGED <<cmds, rereads, net_prev, net_sample, polls, tail_pos, log_exists,
                   log_lines, posted, backlog_end, emitted, handled, sigVars>>

\* client.connect() returns; the change callback is registered.
WorkerConnects ==
    /\ loop = "connecting"
    /\ loop' = "reading"
    /\ UISame
    /\ UNCHANGED <<cmds, rereads, netVars, logVars, sigVars>>

\* get_status() returns: status_ready is emitted, the two tasks are created.
WorkerStarts(mode) ==
    /\ loop = "reading"
    /\ loop' = "running"
    /\ on_status_ready(mode)
    /\ status_ready_emitted' = status_ready_emitted + 1
    /\ log_task' = "waiting"
    /\ net_task' = "running"
    /\ UNCHANGED <<cmds, rereads, net_prev, net_sample, polls, tail_pos, log_exists,
                   log_lines, posted, backlog_end, emitted, handled, errors,
                   helper_launched, reboot, notified>>

\* Mutant: the failure ends main() without an error signal.
WorkerFailsToStart_silent ==
    /\ loop \in {"connecting", "reading"}
    /\ loop' = "stopped"
    /\ UNCHANGED <<uiVars, obsVars>>
    /\ UNCHANGED <<cmds, rereads, netVars, logVars, sigVars>>

\* connect() or get_status() raises: main() emits error and returns.
WorkerFailsToStart ==
    /\ loop \in {"connecting", "reading"}
    /\ loop' = "stopped"
    /\ on_error
    /\ errors' = errors + 1
    /\ UNCHANGED <<cmds, rereads, netVars, logVars, status_ready_emitted,
                   helper_launched, reboot, notified>>

\* The log file is created or mounted, removed or unmounted, by the host.
\* The task looks at the file's existence only while it waits for it; the
\* file may also appear once the task has given up.
LogFileAppears ==
    /\ log_task \in {"waiting", "checking", "stopped"}
    /\ ~log_exists
    /\ log_exists' = TRUE
    /\ UISame
    /\ UNCHANGED <<loop, cmds, rereads, netVars, log_task, polls, tail_pos,
                   log_lines, posted, backlog_end, emitted, handled, sigVars>>

LogFileVanishes ==
    /\ log_task \in {"waiting", "checking"}
    /\ log_exists
    /\ log_exists' = FALSE
    /\ UISame
    /\ UNCHANGED <<loop, cmds, rereads, netVars, log_task, polls, tail_pos,
                   log_lines, posted, backlog_end, emitted, handled, sigVars>>

\* _watch_log_file: one turn of the wait loop.  When the file exists the loop
\* is left and the check after it, which follows without an await, finds the
\* file too; when it does not, the task sleeps for a second, and after the
\* last of the WaitPolls sleeps it is at the check after the loop.
PollLog ==
    /\ log_task = "waiting"
    /\ IF log_exists
       THEN /\ log_task' = "backlog"
            /\ polls' = 0
       ELSE /\ polls' = polls + 1
            /\ log_task' = IF polls + 1 = WaitPolls THEN "checking" ELSE "waiting"
    /\ UISame
    /\ UNCHANGED <<loop, cmds, rereads, netVars, tail_pos, log_exists,
                   log_lines, posted, backlog_end, emitted, handled, sigVars>>

\* _watch_log_file: the existence check after the wait loop, reached after
\* the last sleep.
LogFileFound ==
    /\ log_task = "checking"
    /\ log_exists
    /\ log_task' = "backlog"
    /\ polls' = 0
    /\ UISame
    /\ UNCHANGED <<loop, cmds, rereads, netVars, tail_pos, log_exists,
                   log_lines, posted, backlog_end, emitted, handled, sigVars>>

\* Mutant: the task gives up without an error signal.
LogFileMissing_silent ==
    /\ log_task = "checking"
    /\ ~log_exists
    /\ log_task' = "stopped"
    /\ polls' = 0
    /\ UNCHANGED <<uiVars, obsVars>>
    /\ UNCHANGED <<loop, cmds, rereads, netVars, tail_pos, log_exists,
                   log_lines, posted, backlog_end, emitted, handled, sigVars>>

LogFileMissing ==
    /\ log_task = "checking"
    /\ ~log_exists
    /\ log_task' = "stopped"
    /\ polls' = 0
    /\ on_error
    /\ errors' = errors + 1
    /\ UNCHANGED <<loop, cmds, rereads, netVars, tail_pos, log_exists,
                   log_lines, posted, backlog_end, emitted, handled,
                   status_ready_emitted, helper_launched, reboot, notified>>

\* The two signals of the log tail, as posted events tagged with the number
\* of the line.
PhaseEvent(event, n) == [sig |-> "phase_event", event |-> event, pct |-> 0, line |-> n]
DownloadProgress(p, n) ==
    [sig |-> "download_progress", event |-> "", pct |-> Max(0, Min(100, p)), line |-> n]

\* Mutant: install_complete_re is tried before need_reboot_re.
process_line_complete_first(text, n) ==
    IF text.blank THEN << >>
    ELSE IF "download_complete" \in text.matches THEN <<PhaseEvent("download_complete", n)>>
    ELSE IF "ostree_receiving_objects" \in text.matches THEN <<DownloadProgress(text.obj, n)>>
    ELSE IF "progress" \in text.matches THEN <<DownloadProgress(text.prog, n)>>
    ELSE IF "install_started" \in text.matches THEN <<PhaseEvent("install_started", n)>>
    ELSE IF "install_complete" \in text.matches THEN <<PhaseEvent("install_complete", n)>>
    ELSE IF "need_reboot" \in text.matches THEN <<PhaseEvent("need_reboot", n)>>
    ELSE IF "reboot" \in text.matches THEN <<PhaseEvent("rebooting", n)>>
    ELSE << >>

\* process_line: the events a line makes the task emit (one or none), tagged
\* with the number of the line.
process_line(text, n) ==
    IF text.blank THEN << >>
    ELSE IF "download_complete" \in text.matches THEN <<PhaseEvent("download_complete", n)>>
    ELSE IF "ostree_receiving_objects" \in text.matches THEN <<DownloadProgress(text.obj, n)>>
    ELSE IF "progress" \in text.matches THEN <<DownloadProgress(text.prog, n)>>
    ELSE IF "install_started" \in text.matches THEN <<PhaseEvent("install_started", n)>>
    ELSE IF "need_reboot" \in text.matches THEN <<PhaseEvent("need_reboot", n)>>
    ELSE IF "install_complete" \in text.matches THEN <<PhaseEvent("install_complete", n)>>
    ELSE IF "reboot" \in text.matches THEN <<PhaseEvent("rebooting", n)>>
    ELSE << >>

RECURSIVE process_lines(_, _, _)
\* process_line over the lines first..last of the file, in order.
process_lines(lines, first, last) ==
    IF first > last THEN << >>
    ELSE process_line(lines[first], first) \o process_lines(lines, first + 1, last)

LineNumbers(events) == [i \in 1..Len(events) |-> events[i].line]

\* _watch_log_file, step 1: readlines() and process_line over the last
\* BACKLOG_LINES lines; when the read raises, error is emitted and the task
\* goes on to the live tail.
ReadBacklog(ok) ==
    /\ log_task = "backlog"
    /\ log_task' = "opening"
    /\ IF ok
       THEN LET n == Len(log_lines)
                events == process_lines(log_lines, Max(1, n - BACKLOG_LINES + 1), n)
            IN  /\ posted' = posted \o events
                /\ emitted' = emitted \o LineNumbers(events)
                /\ backlog_end' = n
                /\ UISame
                /\ UNCHANGED errors
       ELSE /\ on_error
            /\ errors' = errors + 1
            /\ UNCHANGED <<posted, emitted, backlog_end>>
    /\ UNCHANGED <<loop, cmds, rereads, netVars, polls, tail_pos, log_exists,
                   log_lines, handled, status_ready_emitted, helper_launched,
                   reboot, notified>>

\* Mutant: the live reader starts at the beginning of the file.
seek_start(lines) == 0

\* f.seek(0, os.SEEK_END): the number of lines in front of the read position.
seek_end(lines) == Len(lines)

\* _watch_log_file, step 2: the file is opened again and the position is set
\* to its end; when open() raises, the exception ends the task (nobody awaits
\* it, so no signal is emitted).
OpenLive(ok) ==
    /\ log_task = "opening"
    /\ IF ok
       THEN /\ log_task' = "tailing"
            /\ tail_pos' = seek_end(log_lines)
       ELSE /\ log_task' = "stopped"
            /\ UNCHANGED tail_pos
    /\ UISame
    /\ UNCHANGED <<loop, cmds, rereads, netVars, polls, log_exists, log_lines,
                   posted, backlog_end, emitted, handled, sigVars>>

\* The update agent appends a line to the log.
AppendLine(text) ==
    /\ log_exists
    /\ Len(log_lines) < MaxLines
    /\ log_lines' = Append(log_lines, text)
    /\ UISame
    /\ UNCHANGED <<loop, cmds, rereads, netVars, log_task, polls, tail_pos,
                   log_exists, posted, backlog_end, emitted, handled, sigVars>>

\* The live loop: readline() returns the next line and process_line runs.
ReadLive ==
    /\ log_task = "tailing"
    /\ tail_pos < Len(log_lines)
    /\ tail_pos' = tail_pos + 1
    /\ LET events == process_line(log_lines[tail_pos + 1], tail_pos + 1)
       IN  /\ posted' = posted \o events
           /\ emitted' = emitted \o LineNumbers(events)
    /\ UISame
    /\ UNCHANGED <<loop, cmds, rereads, netVars, log_task, polls, log_exists,
                   log_lines, backlog_end, handled, sigVars>>

\* Mutant: the newest posted event is taken first.
next_posted_newest(queue) == Len(queue)

\* The UI thread's event loop takes the oldest posted event: the position in
\* the queue of the event it handles next.
next_posted(queue) == 1

\* The UI thread handles a posted event of the log tail with its slot.
Deliver ==
    /\ posted # << >>
    /\ LET k == next_posted(posted)
           e == posted[k]
       IN  /\ posted' = SubSeq(posted, 1, k - 1) \o SubSeq(posted, k + 1, Len(posted))
           /\ handled' = Append(handled, e.line)
           /\ IF e.sig = "phase_event"
              THEN on_phase_event(e.event)
              ELSE on_download_progress_raw(e.pct)
    /\ UNCHANGED <<loop, cmds, rereads, netVars, log_task, polls, tail_pos,
                   log_exists, log_lines, backlog_end, emitted, sigVars>>

\* process_line on a line that carries a percentage / a phase marker, with
\* the content of the log left open: some such line is read and its event
\* handled.
LogProgress(p) ==
    /\ log_task = "tailing"
    /\ on_download_progress_raw(p)
    /\ WorkerSame

LogPhase(event) ==
    /\ log_task = "tailing"
    /\ on_phase_event(event)
    /\ WorkerSame

\* The rx+tx totals the counter files can hold when they are read (a counter
\* that cannot be parsed reads as 0, an interface that is reset starts again
\* from 0).
Totals == {0, 1024, 2097152}

\* Mutant: the delta is taken as it is.
kb_per_sec_signed(prev_total, cur_total) == cur_total - prev_total

\* delta_bytes / 1024.0 of _watch_network, in units of 1/1024 KB/s.
kb_per_sec(prev_total, cur_total) == Max(0, cur_total - prev_total)

\* _watch_network: the first read of the two counters.
NetFirstRead(total) ==
    /\ net_task = "running"
    /\ net_prev = -1
    /\ net_prev' = total
    /\ UISame
    /\ UNCHANGED <<loop, cmds, rereads, net_task, net_sample, logVars, sigVars>>

\* _watch_network: one turn of the loop, the counters read after the sleep
\* and the sample emitted.
NetSample(cur_total) ==
    /\ net_task = "running"
    /\ net_prev # -1
    /\ net_prev' = cur_total
    /\ net_sample' = <<kb_per_sec(net_prev, cur_total)>>
    /\ on_network_activity(kb_per_sec(net_prev, cur_total))
    /\ UNCHANGED <<loop, cmds, rereads, net_task, logVars, sigVars>>

\* _watch_network: a counter file is missing, at the first read or at a
\* later one: the task returns.
NetCountersMissing ==
    /\ net_task = "running"
    /\ net_task' = "stopped"
    /\ UISame
    /\ UNCHANGED <<loop, cmds, rereads, net_prev, net_sample, logVars, sigVars>>

\* _emit_consent
emit_consent(raw) ==
    IF raw # "" THEN on_consent_required(raw) ELSE on_consent_cleared

\* The agent signals a change of ConsentRequired to v: _on_props_changed.
\* (A PropertiesChanged signal without ConsentRequired in it emits nothing.)
PropertiesChanged(v) ==
    /\ loop \in {"reading", "running"}
    /\ emit_consent(v)
    /\ WorkerSame

\* A PropertiesChanged signal of the agent's object, as _on_props_changed
\* sees it: whether "ConsentRequired" is among the changed properties, and its
\* new value.
Changes ==
    {[has |-> FALSE, value |-> ""]} \cup
    {[has |-> TRUE, value |-> v] : v \in {""} \cup Payloads}
\* The interfaces a signal can name: the agent's own, any other.
Ifaces == {"IFACE", "other"}

\* Mutant: the callback is called whether ConsentRequired has changed or not.
on_props_changed_any(iface, changed) == <<changed.value>>

\* AktualizrClient._on_props_changed: the arguments of the calls it makes to
\* the callback (None is ""); the interface is not looked at.
on_props_changed(iface, changed) ==
    IF changed.has THEN <<changed.value>> ELSE << >>

\* The signal _emit_consent emits for raw.
consent_signal(raw) == IF raw # "" THEN "consent_required" ELSE "consent_cleared"

\* A PropertiesChanged signal arrives, with the form of the signal and the
\* signals of the worker it causes kept in notified.
DBusSignal(iface, changed) ==
    /\ loop \in {"reading", "running"}
    /\ LET calls == on_props_changed(iface, changed)
       IN  /\ notified' = <<[changed |-> changed,
                             signals |-> [i \in 1..Len(calls) |-> consent_signal(calls[i])]]>>
           /\ IF calls = << >> THEN UISame ELSE emit_consent(calls[1])
    /\ UNCHANGED <<workerVars, status_ready_emitted, errors, helper_launched, reboot>>

\* _reboot_via_dbus: the reboot_failed signals emitted and the helper
\* processes launched, by what happens to the helper: "missing" (no file at
\* DBUS_SEND_ABS), "spawn_fails" (create_subprocess_exec raises), "nonzero"
\* (it runs and returns a non-zero code), "ok" (it returns 0), "hangs"
\* (communicate() never returns: the system restarts first).
Helper == {"missing", "spawn_fails", "nonzero", "ok", "hangs"}

\* Mutant: the existence of the helper is not checked before the launch, and
\* the failure to launch it is passed over.
reboot_via_dbus_unchecked(helper) ==
    [failed |-> IF helper = "nonzero" THEN 1 ELSE 0,
     launched |-> IF helper \in {"nonzero", "ok", "hangs"} THEN 1 ELSE 0]

\* Mutant: a helper that returns a non-zero code is launched once more.
reboot_via_dbus_retries(helper) ==
    [failed |-> IF helper \in {"missing", "spawn_fails", "nonzero"} THEN 1 ELSE 0,
     launched |-> IF helper = "nonzero" THEN 2
                  ELSE IF helper \in {"ok", "hangs"} THEN 1 ELSE 0]

reboot_via_dbus(helper) ==
    [failed |-> IF helper \in {"missing", "spawn_fails", "nonzero"} THEN 1 ELSE 0,
     launched |-> IF helper \in {"nonzero", "ok", "hangs"} THEN 1 ELSE 0]

\* The loop runs the next scheduled coroutine up to its first await's return.
\* agent_ok: whether the D-Bus call succeeds; while main() is still inside
\* connect() the client has no proxy yet and every agent call raises.
\* Mutant: a failing agent call is treated like a failure of main(): error is
\* emitted and the loop ends.
RunCommand_failure_surfaces(agent_ok, helper) ==
    /\ loop \in {"connecting", "reading", "running"}
    /\ loop = "connecting" => ~agent_ok
    /\ cmds # << >>
    /\ cmds' = Tail(cmds)
    /\ IF Head(cmds).op = "checkForUpdates" /\ agent_ok
       THEN /\ rereads < MaxCmds
            /\ rereads' = rereads + 1
       ELSE UNCHANGED rereads
    /\ IF Head(cmds).op = "rebootNow"
       THEN /\ helper_launched' = (helper_launched \/ reboot_via_dbus(helper).launched > 0)
            /\ reboot' = [started |-> reboot.started - 1,
                          launched |-> reboot_via_dbus(helper).launched,
                          failed |-> reboot_via_dbus(helper).failed]
            /\ IF reboot_via_dbus(helper).failed > 0 THEN on_reboot_failed ELSE UISame
            /\ UNCHANGED <<loop, errors>>
       ELSE /\ IF agent_ok
               THEN UISame /\ UNCHANGED <<loop, errors>>
               ELSE on_error /\ errors' = errors + 1 /\ loop' = "stopped"
            /\ UNCHANGED <<helper_launched, reboot>>
    /\ UNCHANGED <<netVars, logVars, status_ready_emitted, notified>>

RunCommand(agent_ok, helper) ==
    /\ loop \in {"connecting", "reading", "running"}
    /\ loop = "connecting" => ~agent_ok
    /\ cmds # << >>
    /\ cmds' = Tail(cmds)
    /\ IF Head(cmds).op = "checkForUpdates" /\ agent_ok
       THEN /\ rereads < MaxCmds
            /\ rereads' = rereads + 1
       ELSE UNCHANGED rereads
    /\ IF Head(cmds).op = "rebootNow"
       THEN /\ helper_launched' = (helper_launched \/ reboot_via_dbus(helper).launched > 0)
            /\ reboot' = [started |-> reboot.started - 1,
                          launched |-> reboot_via_dbus(helper).launched,
                          failed |-> reboot_via_dbus(helper).failed]
            /\ IF reboot_via_dbus(helper).failed > 0 THEN on_reboot_failed ELSE UISame
       ELSE /\ UISame
            /\ UNCHANGED <<helper_launched, reboot>>
    /\ UNCHANGED <<loop, netVars, logVars, status_ready_emitted, errors, notified>>

\* Mutant: the value read is passed through _emit_consent whatever it is, as
\* a property change is.
Reread_via_emit_consent(read_ok, consent_req) ==
    /\ loop \in {"reading", "running"}
    /\ rereads > 0
    /\ rereads' = rereads - 1
    /\ IF read_ok THEN emit_consent(consent_req) ELSE UNCHANGED <<uiVars, obsVars>>
    /\ UNCHANGED <<loop, cmds, netVars, logVars, sigVars>>

\* AktualizrClient.check_for_updates after call_check_for_updates returned:
\* the re-read of the status and the explicit notification.  consent_req is
\* the value read: the agent owns the property and may have set it to
\* anything, with or without a signal; read_ok is whether get_status
\* returned rather than raised DBusError.
Reread(read_ok, consent_req) ==
    /\ loop \in {"reading", "running"}
    /\ rereads > 0
    /\ rereads' = rereads - 1
    /\ IF read_ok /\ consent_req # ""
       THEN on_consent_required(consent_req)
       ELSE UISame
    /\ UNCHANGED <<loop, cmds, netVars, logVars, sigVars>>

Next ==
    \/ on_phase_tick
    \/ \E checked \in BOOLEAN : on_mode_toggled(checked)
    \/ on_check_clicked
    \/ on_check_timeout
    \/ \E yes \in BOOLEAN : ConsentAnswered(yes)
    \/ \E yes \in BOOLEAN : RebootAnswered(yes)
    \/ RebootFailedAnswered
    \/ WorkerRuns
    \/ WorkerConnects
    \/ \E mode \in {0, 1} : WorkerStarts(mode)
    \/ WorkerFailsToStart
    \/ LogFileAppears
    \/ LogFileVanishes
    \/ PollLog
    \/ LogFileFound
    \/ LogFileMissing
    \/ \E ok \in BOOLEAN : ReadBacklog(ok)
    \/ \E ok \in BOOLEAN : OpenLive(ok)
    \/ \E p \in RawValues : LogProgress(p)
    \/ \E event \in Markers : LogPhase(event)
    \/ \E v \in {""} \cup Payloads : PropertiesChanged(v)
    \/ \E agent_ok \in BOOLEAN, helper \in Helper : RunCommand(agent_ok, helper)
    \/ \E read_ok \in BOOLEAN, consent_req \in {""} \cup Payloads :
            Reread(read_ok, consent_req)

Spec == Init /\ [][Next]_vars

\* The update flow on its own, with every raw percentage the log tail can
\* emit (process_line clamps to 0..100).  It starts in the state the first
\* accepted consent decision leaves: the worker running, the log found, the
\* check answered by one notification, start_update_flow applied to the
\* constructor's fields, the scheduled commands run.
InitRaw ==
    LET s == start_update_flow(
                [phase |-> "idle", phase_progress |-> 0, starting_pct |-> << >>,
                 last_raw_pct |-> -1, reboot_prompt_shown |-> FALSE,
                 phase_timer |-> FALSE, ui_locked |-> FALSE,
                 info |-> "Checking for updates on the server...",
                 net_label |-> ""])
    IN  /\ phase = s.phase
        /\ phase_progress = s.phase_progress
        /\ starting_pct = s.starting_pct
        /\ last_raw_pct = s.last_raw_pct
        /\ reboot_prompt_shown = s.reboot_prompt_shown
        /\ phase_timer = s.phase_timer
        /\ ui_locked = s.ui_locked
        /\ info = s.info
        /\ net_label = s.net_label
        /\ manual_check_active = FALSE
        /\ check_timeout = FALSE
        /\ modals = << >>
        /\ loop = "running"
        /\ cmds = << >>
        /\ rereads = 0
        /\ net_task = "running"
        /\ net_prev = -1
        /\ net_sample = << >>
        /\ reboot = NoReboot
        /\ notified = << >>
        /\ log_task = "tailing"
        /\ polls = 0
        /\ tail_pos = 0
        /\ log_exists = TRUE
        /\ log_lines = << >>
        /\ posted = << >>
        /\ consent_modals = 1
        /\ reboot_prompts = 0
        /\ completion_seen = FALSE
        /\ status_ready_emitted = 1
        /\ errors = 0
        /\ helper_launched = FALSE
        /\ backlog_end = 0
        /\ emitted = << >>
        /\ handled = << >>

NextRaw ==
    \/ on_phase_tick
    \/ \E p \in AllRaw : LogProgress(p)
    \/ \E event \in Markers : LogPhase(event)
    \/ \E yes \in BOOLEAN : RebootAnswered(yes)
    \/ RunCommand(TRUE, "ok")

SpecRaw == InitRaw /\ [][NextRaw]_vars

\* An accepted update flow to its end and after it, with the steps the code
\* takes by itself kept fair: the synthetic timer ticks while it runs, the
\* worker's loop runs what is scheduled on it, and an open box is answered.
\* Lines of the log and clicks on the window come when they come.
NextFlow ==
    \/ on_phase_tick
    \/ \E p \in RawValues : LogProgress(p)
    \/ \E event \in Markers : LogPhase(event)
    \/ \E yes \in BOOLEAN : RebootAnswered(yes)
    \/ RebootFailedAnswered
    \/ \E agent_ok \in BOOLEAN, helper \in Helper : RunCommand(agent_ok, helper)
    \/ \E checked \in BOOLEAN : on_mode_toggled(checked)
    \/ on_check_clicked

SpecFlow ==
    /\ InitRaw
    /\ [][NextFlow]_vars
    /\ WF_vars(on_phase_tick)
    /\ WF_vars(\E agent_ok \in BOOLEAN, helper \in Helper : RunCommand(agent_ok, helper))
    /\ WF_vars(\E yes \in BOOLEAN : RebootAnswered(yes))
    /\ WF_vars(RebootFailedAnswered)

\* The consent notifications signal by signal, with a check, its answer and
\* the synthetic progress of the flow it starts.
NextNotify ==
    \/ WorkerRuns
    \/ WorkerConnects
    \/ \E mode \in {0, 1} : WorkerStarts(mode)
    \/ WorkerFailsToStart
    \/ on_check_clicked
    \/ on_check_timeout
    \/ \E agent_ok \in BOOLEAN : RunCommand(agent_ok, "ok")
    \/ \E read_ok \in BOOLEAN, consent_req \in {""} \cup Payloads :
            Reread(read_ok, consent_req)
    \/ \E iface \in Ifaces, changed \in Changes : DBusSignal(iface, changed)
    \/ \E yes \in BOOLEAN : ConsentAnswered(yes)
    \/ on_phase_tick

SpecNotify == Init /\ [][NextNotify]_vars

\* The command surface under the scheduling the code relies on: the worker
\* thread runs, connect() and get_status() return or raise, the loop runs
\* what is scheduled on it while it runs, the timers fire.
NextCmd ==
    \/ WorkerRuns
    \/ WorkerConnects
    \/ \E mode \in {0, 1} : WorkerStarts(mode)
    \/ WorkerFailsToStart
    \/ \E checked \in BOOLEAN : on_mode_toggled(checked)
    \/ on_check_clicked
    \/ on_check_timeout
    \/ \E agent_ok \in BOOLEAN : RunCommand(agent_ok, "ok")
    \/ \E read_ok \in BOOLEAN, consent_req \in {""} \cup Payloads :
            Reread(read_ok, consent_req)
    \/ \E v \in {""} \cup Payloads : PropertiesChanged(v)
    \/ \E yes \in BOOLEAN : ConsentAnswered(yes)

SpecCmd ==
    /\ Init
    /\ [][NextCmd]_vars
    /\ WF_vars(WorkerRuns)
    /\ WF_vars(WorkerConnects \/ WorkerFailsToStart)
    /\ WF_vars((\E mode \in {0, 1} : WorkerStarts(mode)) \/ WorkerFailsToStart)
    /\ WF_vars(\E agent_ok \in BOOLEAN : RunCommand(agent_ok, "ok"))
    /\ WF_vars(\E read_ok \in BOOLEAN, consent_req \in {""} \cup Payloads :
                    Reread(read_ok, consent_req))
    /\ WF_vars(on_check_timeout)

\* The manual check under the same scheduling, with every open consent box
\* answered in the end.
SpecCheck ==
    /\ SpecCmd
    /\ WF_vars(\E yes \in BOOLEAN : ConsentAnswered(yes))

\* process_line on every kind of line: the worker has started and found a
\* log of one line, which is there before the backlog is read or is
\* appended after the live reader has been opened.
InitLines ==
    /\ phase = "idle"
    /\ phase_progress = 0
    /\ starting_pct = << >>
    /\ last_raw_pct = -1
    /\ reboot_prompt_shown = FALSE
    /\ manual_check_active = FALSE
    /\ phase_timer = FALSE
    /\ check_timeout = FALSE
    /\ ui_locked = FALSE
    /\ info \in {"Mode: Require consent", "Mode: Automatic"}
    /\ net_label = ""
    /\ modals = << >>
    /\ loop = "running"
    /\ cmds = << >>
    /\ rereads = 0
    /\ net_task = "running"
    /\ net_prev = -1
    /\ net_sample = << >>
    /\ reboot = NoReboot
    /\ notified = << >>
    /\ log_task \in {"backlog", "tailing"}
    /\ polls = 0
    /\ tail_pos = 0
    /\ log_exists = TRUE
    /\ log_lines \in {<<text>> : text \in AllLines}
    /\ posted = << >>
    /\ consent_modals = 0
    /\ reboot_prompts = 0
    /\ completion_seen = FALSE
    /\ status_ready_emitted = 1
    /\ errors = 0
    /\ helper_launched = FALSE
    /\ backlog_end = IF log_task = "tailing" THEN 0 ELSE -1
    /\ emitted = << >>
    /\ handled = << >>

NextLines ==
    \/ \E ok \in BOOLEAN : ReadBacklog(ok)
    \/ \E ok \in BOOLEAN : OpenLive(ok)
    \/ ReadLive
    \/ Deliver

SpecLines == InitLines /\ [][NextLines]_vars

\* The worker thread on its own, from the construction of MainWindow: the
\* start of run(), the log-tail task line by line over a log the agent
\* appends to, the network task, and the UI thread handling the posted
\* events of the log tail (and answering the reboot prompt they open).
NextWorker ==
    \/ WorkerRuns
    \/ WorkerConnects
    \/ \E mode \in {0, 1} : WorkerStarts(mode)
    \/ WorkerFailsToStart
    \/ LogFileAppears
    \/ LogFileVanishes
    \/ PollLog
    \/ LogFileFound
    \/ LogFileMissing
    \/ \E ok \in BOOLEAN : ReadBacklog(ok)
    \/ \E ok \in BOOLEAN : OpenLive(ok)
    \/ \E text \in LogLines : AppendLine(text)
    \/ ReadLive
    \/ Deliver
    \/ \E total \in Totals : NetFirstRead(total)
    \/ \E cur_total \in Totals : NetSample(cur_total)
    \/ NetCountersMissing
    \/ \E agent_ok \in BOOLEAN, helper \in Helper : RunCommand(agent_ok, helper)
    \/ \E yes \in BOOLEAN : RebootAnswered(yes)

SpecWorker == Init /\ [][NextWorker]_vars

\* ------------------------------------------------------------------------
\* Steps, as seen from outside the handlers.
\* ------------------------------------------------------------------------

\* A consent box / a reboot prompt is opened by the step.
OpensConsentModal == Len(modals') > Len(modals) /\ Top(modals') = "consent"
OpensRebootModal == Len(modals') > Len(modals) /\ Top(modals') = "reboot"
\* The step schedules a command of one of the kinds in ops on the worker.
Issues(ops) == Len(cmds') > Len(cmds) /\ Top(cmds').op \in ops
\* The step handles a raw progress value / a phase marker from the log.
HandlesRaw == \E p \in AllRaw : LogProgress(p)
HandlesMarker(event) == LogPhase(event)
\* The step is the accepting branch of the consent decision: start_update_flow.
StartsFlow == ConsentAnswered(TRUE)

\* ------------------------------------------------------------------------
\* C1: phase_progress never decreases from one state to the next unless the
\* next state has phase = idle.
\* ------------------------------------------------------------------------
C1_ProgressNeverDecreases ==
    [][phase_progress' < phase_progress => phase' = "idle"]_vars

\* ------------------------------------------------------------------------
\* C2: a brand-new update flow (start_update_flow) is started only when the
\* current phase is idle.
\* ------------------------------------------------------------------------
C2_FlowStartsOnlyFromIdle ==
    [][StartsFlow => phase = "idle"]_vars

\* ------------------------------------------------------------------------
\* C3: whenever phase is not idle, a mode toggle and a check click issue no
\* command, do not set manual_check_active, do not start the check timer and
\* only show their rejection message; setMode and checkForUpdates commands
\* are issued only from phase = idle.
\* ------------------------------------------------------------------------
Rejections == {"An update is in progress. Mode cannot be changed now.",
               "An update is already in progress."}

C3_RejectedWhenNotIdle ==
    [][/\ Issues({"setMode", "checkForUpdates"}) => phase = "idle"
       /\ (~manual_check_active /\ manual_check_active') => phase = "idle"
       /\ (~check_timeout /\ check_timeout') => phase = "idle"
       /\ (phase # "idle" /\ (on_check_clicked \/ \E c \in BOOLEAN : on_mode_toggled(c)))
            => /\ info' \in Rejections
               /\ UNCHANGED <<phase, phase_progress, starting_pct, last_raw_pct, net_label,
                              reboot_prompt_shown, manual_check_active, phase_timer,
                              check_timeout, ui_locked, modals, cmds>>]_vars

C3_Witness ==
    /\ phase = "installing"
    /\ info = "An update is already in progress."
    /\ ~manual_check_active
    /\ cmds = << >>

\* ------------------------------------------------------------------------
\* C4: a consent-required notification handled while no manual check is
\* active never opens a modal decision; one handled during an active manual
\* check (with a payload that names a target) opens one; at most one modal
\* is opened per manual check.
\* ------------------------------------------------------------------------
C4_OneModalPerCheck ==
    [][/\ OpensConsentModal => (manual_check_active /\ consent_modals' <= 1)
       /\ (manual_check_active /\ (PropertiesChanged("targets") \/ Reread(TRUE, "targets")))
            => OpensConsentModal]_vars

\* ------------------------------------------------------------------------
\* C5: between two resets of the state machine the reboot prompt is opened
\* at most once, and a need_reboot marker handled once the guard is set (the
\* prompt still open or already answered) opens nothing.
\* ------------------------------------------------------------------------
C5_RebootPromptOnce ==
    /\ [](reboot_prompts <= 1)
    /\ [][/\ OpensRebootModal => (~reboot_prompt_shown /\ reboot_prompt_shown')
          /\ (reboot_prompt_shown /\ HandlesMarker("need_reboot"))
               => modals' = modals]_vars

C5_Witness ==
    /\ modals # << >>
    /\ Top(modals) = "reboot"
    /\ reboot_prompt_shown
    /\ reboot_prompts = 1

\* ------------------------------------------------------------------------
\* C6: the first accepted raw value p0 > 50 sets starting_pct = p0 and raises
\* progress to at least min(p0, 94); every later accepted raw value p > 50
\* raises progress to at least
\*   floor(starting_pct + (p - starting_pct) * (94 - starting_pct) / (100 - starting_pct))
\* capped at 94 (for starting_pct = 100 the quotient is 0/0 and only the cap
\* is left); raw values of 50 or less leave the progress as it is, and the
\* raw sequence 10, 30, 75, 82, 100 gives 0, 0, 75, 80, 94.
\* ------------------------------------------------------------------------
C6_Rescaled(start, p) ==
    IF start = 100 THEN 94
    ELSE Min(94, start + ((p - start) * (94 - start)) \div (100 - start))

C6_RealProgress ==
    /\ [](starting_pct # << >> =>
            /\ starting_pct[1] > 50
            /\ last_raw_pct >= starting_pct[1]
            /\ phase_progress >= 2 * Min(starting_pct[1], 94)
            /\ phase_progress >= 2 * C6_Rescaled(starting_pct[1], last_raw_pct))
    /\ []((~completion_seen /\ starting_pct = <<75>>) =>
            /\ (last_raw_pct = 75 => phase_progress = 2 * 75)
            /\ (last_raw_pct = 82 => phase_progress = 2 * 80)
            /\ (last_raw_pct = 100 => phase_progress = 2 * 94))
    /\ [][/\ (starting_pct = << >> /\ last_raw_pct' > 50)
               => starting_pct' = <<last_raw_pct'>>
          /\ (last_raw_pct' # last_raw_pct /\ last_raw_pct' \in 0..50)
               => phase_progress' = phase_progress]_vars

C6_Witness ==
    /\ phase = "downloading"
    /\ starting_pct = <<75>>
    /\ last_raw_pct = 82
    /\ phase_progress = 2 * 80

\* ------------------------------------------------------------------------
\* C7: as long as no download_complete, install_started, install_complete or
\* need_reboot marker has been processed since the flow started,
\* phase_progress is at most 94.
\* ------------------------------------------------------------------------
C7_AtMost94BeforeCompletion ==
    ~completion_seen => phase_progress <= 2 * 94

\* A first real value above 94, then a later one: the rescaling range
\* 94 - starting_pct is negative.
C7_Witness ==
    /\ ~completion_seen
    /\ starting_pct = <<97>>
    /\ last_raw_pct = 98
    /\ phase_progress = 2 * 94

\* ------------------------------------------------------------------------
\* C8: after a download_complete marker is processed in any active phase the
\* phase is downloaded, phase_progress is at least 95 and the synthetic timer
\* is stopped.
\* ------------------------------------------------------------------------
C8_DownloadComplete ==
    [][(phase # "idle" /\ HandlesMarker("download_complete"))
         => /\ phase' = "downloaded"
            /\ phase_progress' >= 2 * 95
            /\ ~phase_timer']_vars

\* download_complete in a flow that never saw a raw value above 50.
C8_Witness ==
    /\ phase = "downloaded"
    /\ ui_locked
    /\ starting_pct = << >>
    /\ phase_progress = 2 * 95
    /\ ~phase_timer

\* ------------------------------------------------------------------------
\* C9: after a need_reboot marker is processed in a non-idle phase the state
\* machine is in phase need_reboot, with progress at least 95, the synthetic
\* timer stopped and the check button and mode switch re-enabled, and it
\* stays in need_reboot when the marker repeats.
\* ------------------------------------------------------------------------
C9_NeedReboot ==
    [][(phase # "idle" /\ HandlesMarker("need_reboot"))
         => /\ phase' = "need_reboot"
            /\ phase_progress' >= 2 * 95
            /\ ~phase_timer'
            /\ ~ui_locked']_vars

\* ------------------------------------------------------------------------
\* C10: while phase = idle no log-derived event changes the phase or the
\* progress; the phase leaves idle only through the consent decision.
\* ------------------------------------------------------------------------
C10_IdleIgnoresLog ==
    [][/\ (phase = "idle" /\ (HandlesRaw \/ \E e \in Markers : HandlesMarker(e)))
            => UNCHANGED <<phase, phase_progress>>
       /\ (phase = "idle" /\ phase' # "idle") => (StartsFlow /\ phase' = "preparing")]_vars

\* The step closes a consent box (the decision is taken).
ClosesConsentModal ==
    modals # << >> /\ Top(modals) = "consent" /\ modals' = Pop(modals)
\* The step handles a consent-required notification with payload v.
HandlesConsentRequired(v) == PropertiesChanged(v) \/ Reread(TRUE, v)

\* ------------------------------------------------------------------------
\* C11: the 15-second timer of a manual check is stopped by every
\* consent-required notification; when it fires in phase idle the state
\* machine is reset to its idle defaults, "No updates found." is shown and
\* manual_check_active is cleared, and a consent-required notification handled
\* with manual_check_active cleared is passive (no box, the passive text);
\* when it fires in another phase neither phase nor progress changes.
\* ------------------------------------------------------------------------
C11_CheckTimeout ==
    [][/\ on_check_timeout =>
            /\ ~manual_check_active'
            /\ ~check_timeout'
            /\ modals' = modals
            /\ cmds' = cmds
            /\ IF phase = "idle"
               THEN /\ phase' = "idle"
                    /\ phase_progress' = 0
                    /\ starting_pct' = << >>
                    /\ last_raw_pct' = -1
                    /\ ~reboot_prompt_shown'
                    /\ ~phase_timer'
                    /\ ~ui_locked'
                    /\ info' = "No updates found."
               ELSE UNCHANGED <<phase, phase_progress>>
       /\ (\E v \in Payloads : HandlesConsentRequired(v)) => ~check_timeout'
       /\ (~manual_check_active /\ \E v \in Payloads : HandlesConsentRequired(v))
            => /\ modals' = modals
               /\ ~manual_check_active'
               /\ info' = "An update is available (pending consent)."
               /\ UNCHANGED <<phase, phase_progress, cmds>>]_vars

\* The timeout of a check whose command has run has fired in idle.
C11_Witness ==
    /\ phase = "idle"
    /\ info = "No updates found."
    /\ ~manual_check_active
    /\ ~check_timeout
    /\ modals = << >>
    /\ cmds = << >>
    /\ rereads = 0
    /\ loop = "running"

\* ------------------------------------------------------------------------
\* C12: once an update flow has completed (need_reboot processed and the
\* reboot prompt answered), the state machine is eventually reset to idle,
\* without a worker error.
\* ------------------------------------------------------------------------
C12_EventuallyIdle ==
    (reboot_prompt_shown /\ modals = << >>) ~> (phase = "idle")

\* ------------------------------------------------------------------------
\* C13, as claimed: the wait for the log file ends with an error and the end
\* of the task if none of the WaitPolls polls found the file, and with the
\* backlog replay and no error if one of them did.
\* ------------------------------------------------------------------------
C13_DecidedByThePolls ==
    [][/\ (log_task = "checking" /\ log_task' # "checking")
            => /\ log_task' = "stopped"
               /\ errors' = errors + 1
       /\ (log_task = "waiting" /\ log_exists /\ log_task' # "waiting")
            => /\ log_task' = "backlog"
               /\ errors' = errors]_vars

\* ------------------------------------------------------------------------
\* C13, amended: the last existence check of the wait decides (the one of the
\* poll that finds the file, or the one made after the last poll's sleep).
\* If the file does not exist then, the task emits exactly one error and
\* stops: no download-progress or phase event and no further error is emitted
\* afterwards, also when the file appears later.  If it exists then, no error
\* is emitted and the backlog replay starts.
\* ------------------------------------------------------------------------
WaitingForLog == {"waiting", "checking"}

C13_DecidedByTheCheck ==
    [][/\ (log_task \in WaitingForLog /\ log_task' \notin WaitingForLog)
            => IF log_exists
               THEN /\ log_task' = "backlog"
                    /\ errors' = errors
                    /\ UNCHANGED <<uiVars, emitted, posted>>
               ELSE /\ log_task' = "stopped"
                    /\ errors' = errors + 1
                    /\ emitted' = emitted
       /\ log_task = "stopped"
            => /\ log_task' = "stopped"
               /\ errors' = errors
               /\ emitted' = emitted
               /\ Len(posted') <= Len(posted)]_vars

\* The task has given up after polls that all missed the file, and the file
\* has appeared since.
C13_Witness ==
    /\ log_task = "stopped"
    /\ errors = 1
    /\ log_exists
    /\ backlog_end = -1
    /\ emitted = << >>

\* ------------------------------------------------------------------------
\* C14: after the backlog read, every phase marker among the last
\* BACKLOG_LINES lines the file had at the read has been emitted exactly once,
\* the events are emitted in the order of their lines (so the backlog's before
\* any live one, and none twice), and the live reader starts at or after the
\* end of what the backlog read saw.
\* ------------------------------------------------------------------------
\* A line that holds a marker: the download-complete text, or one of the
\* other marker patterns and no percentage pattern in front of it.
MarkerLine(text) ==
    /\ ~text.blank
    /\ \/ "download_complete" \in text.matches
       \/ /\ text.matches # {}
          /\ text.matches \cap {"ostree_receiving_objects", "progress"} = {}

Occurrences(seq, x) == Cardinality({i \in 1..Len(seq) : seq[i] = x})

StrictlyIncreasing(seq) == \A i \in 1..(Len(seq) - 1) : seq[i] < seq[i + 1]

C14_BacklogReplay ==
    /\ StrictlyIncreasing(emitted)
    /\ backlog_end >= 0 =>
          \A i \in Max(1, backlog_end - BACKLOG_LINES + 1)..backlog_end :
              MarkerLine(log_lines[i]) => Occurrences(emitted, i) = 1
    /\ (log_task = "tailing" /\ backlog_end >= 0) => tail_pos >= backlog_end

\* A marker replayed from the backlog and an event of a later, live line.
C14_Witness ==
    /\ backlog_end >= 1
    /\ Len(emitted) >= 2
    /\ emitted[1] <= backlog_end
    /\ MarkerLine(log_lines[emitted[1]])
    /\ emitted[Len(emitted)] > backlog_end

\* ------------------------------------------------------------------------
\* C15: the events of the log tail are handled in the order of the lines they
\* were extracted from: what has been handled is a prefix of what has been
\* emitted, and that is in line order.
\* ------------------------------------------------------------------------
C15_HandledInLineOrder ==
    /\ StrictlyIncreasing(emitted)
    /\ Len(handled) <= Len(emitted)
    /\ handled = SubSeq(emitted, 1, Len(handled))

\* Two events handled, a third still queued.
C15_Witness ==
    /\ Len(handled) = 2
    /\ posted # << >>
    /\ handled[1] < handled[2]

\* ------------------------------------------------------------------------
\* C16: status_ready is emitted at most once, exactly once when the start
\* succeeds, from inside get_status's return (after the connection and the
\* registration of the callback); the two tasks exist only after it, and no
\* download-progress, phase-event or network-activity event is emitted before
\* it.
\* ------------------------------------------------------------------------
C16_StartOrder ==
    /\ [](status_ready_emitted <= 1)
    /\ [](loop = "running" <=> status_ready_emitted = 1)
    /\ [](status_ready_emitted = 0 =>
            /\ log_task = "none"
            /\ net_task = "none"
            /\ emitted = << >>)
    /\ [][/\ status_ready_emitted' # status_ready_emitted => loop = "reading"
          /\ (emitted' # emitted \/ \E cur_total \in Totals : NetSample(cur_total))
               => status_ready_emitted = 1]_vars

C16_Witness ==
    /\ status_ready_emitted = 1
    /\ loop = "running"
    /\ handled # << >>
    /\ net_label # ""

\* ------------------------------------------------------------------------
\* C17: when connect() or the read of the initial status fails, the worker
\* has emitted exactly one error and no status_ready, the log-tail and the
\* network task are never started, no log event is emitted, and the worker
\* never leaves that state (no reconnection).
\* ------------------------------------------------------------------------
C17_FailedStart ==
    /\ [](loop = "stopped" =>
            /\ errors = 1
            /\ status_ready_emitted = 0
            /\ log_task = "none"
            /\ net_task = "none"
            /\ emitted = << >>)
    /\ [][loop = "stopped" => UNCHANGED <<loop, sigVars, logVars, netVars>>]_vars

C17_Witness ==
    /\ loop = "stopped"
    /\ errors = 1
    /\ info = "Failed to connect to D-Bus / Aktualizr."

\* ------------------------------------------------------------------------
\* C18: the re-read that follows checkForUpdates has consent-required handled
\* if and only if it succeeds with a non-empty payload; an empty payload and
\* a failed re-read change nothing in MainWindow (no consent-required, no
\* consent-cleared, no error).
\* ------------------------------------------------------------------------
C18_RereadNotifies ==
    [][/\ (\E r \in BOOLEAN, v \in {""} \cup Payloads :
                Reread(r, v) /\ ~(r /\ v # ""))
            => UNCHANGED <<uiVars, obsVars, sigVars>>
       /\ (\E v \in Payloads : Reread(TRUE, v))
            => /\ ~check_timeout'
               /\ errors' = errors
               /\ IF manual_check_active
                  THEN info' = info
                  ELSE info' = "An update is available (pending consent)."
       /\ rereads' < rereads => UNCHANGED cmds]_vars

\* The re-read has opened the consent box of a manual check.
C18_Witness ==
    /\ modals = <<"consent">>
    /\ manual_check_active
    /\ rereads = 0
    /\ cmds = << >>
    /\ ~check_timeout
    /\ info = "Checking for updates on the server..."

\* ------------------------------------------------------------------------
\* C19: every decision taken in a consent box schedules exactly one consent
\* command, whose granted flag is the decision, and clears
\* manual_check_active; consent commands are scheduled by nothing else;
\* accepting sets phase preparing with progress 0, locks the UI and starts the
\* synthetic timer; refusing leaves phase and progress as they are.
\* ------------------------------------------------------------------------
C19_ConsentDecision ==
    [][/\ \A yes \in BOOLEAN :
            ConsentAnswered(yes)
              => /\ cmds' = Append(cmds, [op |-> "sendConsent",
                                          arg |-> IF yes THEN 1 ELSE 0])
                 /\ ~manual_check_active'
       /\ ClosesConsentModal
            => /\ Len(cmds') = Len(cmds) + 1
               /\ Top(cmds').op = "sendConsent"
               /\ ~manual_check_active'
               /\ IF Top(cmds').arg = 1
                  THEN /\ phase' = "preparing"
                       /\ phase_progress' = 0
                       /\ ui_locked'
                       /\ phase_timer'
                  ELSE UNCHANGED <<phase, phase_progress>>
       /\ Issues({"sendConsent"}) => ClosesConsentModal]_vars

\* A refusal, scheduled and not yet run.
C19_Witness ==
    /\ cmds = <<[op |-> "sendConsent", arg |-> 0]>>
    /\ info = "Update refused."
    /\ ~manual_check_active
    /\ phase = "idle"

\* ------------------------------------------------------------------------
\* C20: when the rebootNow request runs and the helper binary is missing,
\* exactly one reboot-failed is emitted (its box opens) and the helper process
\* is not launched.
\* ------------------------------------------------------------------------
C20_MissingHelper ==
    [][(/\ cmds # << >>
        /\ Head(cmds).op = "rebootNow"
        /\ \E agent_ok \in BOOLEAN : RunCommand(agent_ok, "missing"))
         => /\ modals' = Append(modals, "reboot_failed")
            /\ info' = "Reboot failed."
            /\ helper_launched' = helper_launched]_vars

\* The box of the failure is open and no helper was ever launched.
C20_Witness ==
    /\ modals = <<"reboot_failed">>
    /\ info = "Reboot failed."
    /\ ~helper_launched
    /\ cmds = << >>

\* ------------------------------------------------------------------------
\* C21: a rebootNow request emits reboot_started once, when it is made (the
\* signals emitted and not yet followed by an outcome are those of the
\* requests still scheduled), and when it runs its helper is launched at most
\* once: a helper that never returns or returns 0 causes no reboot_failed, a
\* helper that returns a non-zero code or cannot be launched causes exactly
\* one.
\* ------------------------------------------------------------------------
RunsReboot(helper) ==
    /\ cmds # << >>
    /\ Head(cmds).op = "rebootNow"
    /\ \E agent_ok \in BOOLEAN : RunCommand(agent_ok, helper)

C21_RebootRequest ==
    /\ [](reboot.started = Occurrences(cmds, [op |-> "rebootNow", arg |-> 0]))
    /\ [](reboot.launched <= 1 /\ reboot.failed <= 1)
    /\ [][/\ Issues({"rebootNow"})
               => reboot' = [reboot EXCEPT !.started = @ + 1]
          /\ RunsReboot("hangs") => (reboot'.launched = 1 /\ reboot'.failed = 0)
          /\ RunsReboot("ok") => (reboot'.launched = 1 /\ reboot'.failed = 0)
          /\ RunsReboot("nonzero")
               => /\ reboot'.launched = 1
                  /\ reboot'.failed = 1
                  /\ modals' = Append(modals, "reboot_failed")
          /\ RunsReboot("spawn_fails")
               => /\ reboot'.launched = 0
                  /\ reboot'.failed = 1
                  /\ modals' = Append(modals, "reboot_failed")
          /\ reboot' # reboot
               => \/ Issues({"rebootNow"})
                  \/ \E helper \in Helper : RunsReboot(helper)]_vars

\* The request has run: its helper was launched and returned a non-zero
\* code, the box of the one failure is open.
C21_Witness ==
    /\ reboot = [started |-> 0, launched |-> 1, failed |-> 1]
    /\ modals # << >>
    /\ Top(modals) = "reboot_failed"
    /\ cmds = << >>

\* ------------------------------------------------------------------------
\* C22: no network sample is negative, a total that went down gives the
\* sample 0; the step at which a counter file is found missing stops the
\* network task without an error and without touching anything else, the
\* stopped task emits nothing more (an error only ever comes from the start
\* of the worker or from the log tail), and the log tail and the scheduled
\* commands run as before.
\* ------------------------------------------------------------------------
C22_NetworkSamples ==
    /\ [](net_sample # << >> => net_sample[1] >= 0)
    /\ [](net_task = "stopped" =>
            /\ (log_task = "tailing" /\ tail_pos < Len(log_lines)) => ENABLED ReadLive
            /\ posted # << >> => ENABLED Deliver
            /\ (cmds # << >> /\ loop = "running" /\ Len(modals) < MaxModals)
                 => ENABLED RunCommand(TRUE, "nonzero"))
    /\ [][/\ ((\E cur_total \in Totals : NetSample(cur_total)) /\ net_prev' < net_prev)
               => net_sample' = <<0>>
          /\ (net_task # "stopped" /\ net_task' = "stopped")
               => UNCHANGED <<uiVars, obsVars, sigVars, loop, cmds, rereads, logVars,
                              net_prev, net_sample>>
          /\ net_task = "stopped" => UNCHANGED netVars
          /\ errors' # errors
               => (WorkerFailsToStart \/ LogFileMissing \/ ReadBacklog(FALSE))]_vars

\* The task has stopped after a sample of 0, and the log tail has emitted an
\* event since it was opened.
C22_Witness ==
    /\ net_task = "stopped"
    /\ net_sample = <<0>>
    /\ net_prev = 0
    /\ log_task = "tailing"
    /\ emitted # << >>
    /\ errors = 0

\* ------------------------------------------------------------------------
\* C23: the handling of a worker error, in whatever phase, leaves the state
\* machine in its idle defaults.
\* ------------------------------------------------------------------------
IdleDefaults ==
    /\ phase = "idle"
    /\ phase_progress = 0
    /\ starting_pct = << >>
    /\ last_raw_pct = -1
    /\ ~reboot_prompt_shown
    /\ ~phase_timer
    /\ ~ui_locked

C23_ErrorResets ==
    [][errors' # errors
         => /\ IdleDefaults'
            /\ info' = "Failed to connect to D-Bus / Aktualizr."]_vars

\* The one error arrived after a consent was accepted (the flow was started,
\* the decision is still to be sent): the state machine is idle again.
C23_Witness ==
    /\ errors = 1
    /\ IdleDefaults
    /\ cmds = <<[op |-> "sendConsent", arg |-> 1]>>
    /\ info = "Failed to connect to D-Bus / Aktualizr."

\* ------------------------------------------------------------------------
\* C24: a command scheduled on the worker is eventually run by it.
\* ------------------------------------------------------------------------
C24_CommandsRun == (cmds # << >>) ~> (cmds = << >>)

\* ------------------------------------------------------------------------
\* C25: an install_started or install_complete marker handled in a phase
\* other than idle leaves phase = installing, phase_progress >= 95 and the
\* synthetic timer stopped; handled in idle it changes nothing.
\* ------------------------------------------------------------------------
C25_InstallMarkers ==
    [][\A event \in {"install_started", "install_complete"} :
          HandlesMarker(event)
            => IF phase = "idle" THEN UNCHANGED vars
               ELSE /\ phase' = "installing"
                    /\ phase_progress' >= 2 * 95
                    /\ ~phase_timer']_vars

\* An install marker (not need_reboot, which changes the text) was handled.
C25_Witness ==
    /\ phase = "installing"
    /\ info = "Applying update..."
    /\ phase_progress = 2 * 95
    /\ ~phase_timer
    /\ reboot_prompts = 0

\* ------------------------------------------------------------------------
\* C26: a tick in phase preparing below 50 adds exactly 0.5 and never passes
\* 50; any other tick changes neither phase nor progress; left to the ticks,
\* a flow in phase preparing gets to 50 (one half-percent per tick from 0:
\* 100 ticks) and stays there.
\* ------------------------------------------------------------------------
C26_SyntheticTicks ==
    /\ [](phase = "preparing" => phase_progress <= 2 * 50)
    /\ [][on_phase_tick
            => IF phase = "preparing" /\ phase_progress < 2 * 50
               THEN phase' = phase /\ phase_progress' = phase_progress + 1
               ELSE UNCHANGED <<phase, phase_progress>>]_vars
    /\ [][(phase = "preparing" /\ phase' = "preparing")
            => phase_progress' \in {phase_progress, phase_progress + 1}]_vars
    /\ (phase = "preparing") ~> (phase # "preparing" \/ phase_progress = 2 * 50)

\* The synthetic progress has reached 50 with the timer still running.
C26_Witness ==
    /\ phase = "preparing"
    /\ phase_progress = 2 * 50
    /\ phase_timer

\* ------------------------------------------------------------------------
\* C27: a raw value of 50 or less changes at most last_raw_pct; a raw value
\* above 50 that is accepted in phase preparing moves the phase to
\* downloading and stops the synthetic timer.  Stated of the handler's
\* result for every raw value in every reachable state, and of the steps
\* that accept a value.
\* ------------------------------------------------------------------------
C27_NoiseAndFirstReal ==
    /\ [](\A p \in AllRaw :
            LET s == download_progress_raw(UI, p)
            IN  /\ p <= 50
                     => /\ s.phase = phase
                        /\ s.phase_progress = phase_progress
                        /\ s.starting_pct = starting_pct
                        /\ s.phase_timer = phase_timer
                        /\ s.last_raw_pct \in {last_raw_pct, p}
                /\ (p > 50 /\ phase = "preparing" /\ p >= last_raw_pct)
                     => /\ s.phase = "downloading"
                        /\ ~s.phase_timer
                        /\ s.starting_pct = <<p>>)
    /\ [][(last_raw_pct' \in AllRaw /\ LogProgress(last_raw_pct'))
            => /\ last_raw_pct' <= 50
                    => UNCHANGED <<phase, phase_progress, starting_pct, phase_timer>>
               /\ (last_raw_pct' > 50 /\ phase = "preparing")
                    => (phase' = "downloading" /\ ~phase_timer')]_vars

\* Noise up to 50 was accepted, then 51: the bar is at 51 (the ticks had not
\* taken it further), the phase is downloading.
C27_Witness ==
    /\ phase = "downloading"
    /\ starting_pct = <<51>>
    /\ last_raw_pct = 51
    /\ phase_progress = 2 * 51
    /\ ~phase_timer
    /\ ~completion_seen

\* ------------------------------------------------------------------------
\* C28: a raw value below last_raw_pct changes nothing at all (the handler's
\* result for every such value in every reachable state, and the step that
\* handles the value just below); a value equal to it is accepted (above 50
\* it takes a flow that a marker had moved on back to downloading); within
\* the flow last_raw_pct never decreases.
\* ------------------------------------------------------------------------
C28_MonotonicFilter ==
    /\ [](\A p \in AllRaw : p < last_raw_pct => download_progress_raw(UI, p) = UI)
    /\ []((last_raw_pct > 50 /\ phase # "idle")
            => /\ download_progress_raw(UI, last_raw_pct).phase = "downloading"
               /\ download_progress_raw(UI, last_raw_pct).last_raw_pct = last_raw_pct)
    /\ [][/\ (last_raw_pct >= 1 /\ LogProgress(last_raw_pct - 1)) => UNCHANGED vars
          /\ (last_raw_pct > 50 /\ phase # "idle" /\ LogProgress(last_raw_pct))
               => /\ phase' = "downloading"
                  /\ last_raw_pct' = last_raw_pct
          /\ last_raw_pct' >= last_raw_pct]_vars

\* A value accepted after a completion marker, equal to the first real
\* value: the phase is downloading again.
C28_Witness ==
    /\ phase = "downloading"
    /\ completion_seen
    /\ starting_pct = <<75>>
    /\ last_raw_pct = 75
    /\ phase_progress = 2 * 95

\* ------------------------------------------------------------------------
\* C29: a PropertiesChanged signal that holds ConsentRequired makes the
\* worker emit exactly one signal, consent_required for a non-empty value and
\* consent_cleared for an empty one; a signal without it makes the worker emit
\* nothing and changes nothing; consent_cleared changes neither phase nor
\* progress.
\* ------------------------------------------------------------------------
C29_OneEventPerNotification ==
    /\ [](notified # << >> =>
            notified[1].signals =
                IF ~notified[1].changed.has THEN << >>
                ELSE IF notified[1].changed.value # "" THEN <<"consent_required">>
                ELSE <<"consent_cleared">>)
    /\ [][\A iface \in Ifaces :
            /\ DBusSignal(iface, [has |-> FALSE, value |-> ""])
                 => UNCHANGED <<uiVars, obsVars>>
            /\ DBusSignal(iface, [has |-> TRUE, value |-> ""])
                 => UNCHANGED <<phase, phase_progress, starting_pct, last_raw_pct,
                                phase_timer, ui_locked, modals, manual_check_active>>]_vars

\* consent_cleared handled in an accepted flow that has made progress.
C29_Witness ==
    /\ notified = <<[changed |-> [has |-> TRUE, value |-> ""],
                     signals |-> <<"consent_cleared">>]>>
    /\ phase = "preparing"
    /\ phase_progress > 0
    /\ info = "Consent sent. Waiting for download to complete..."

\* ------------------------------------------------------------------------
\* C30: a line gives at most one event, that of the first pattern it matches
\* in the order of LinePatterns: a line that matches nothing (an empty one
\* included) gives none, a NEED_COMPLETION line gives need_reboot although it
\* matches the install-complete pattern, and a percentage is within 0..100.
\* ------------------------------------------------------------------------
Rank(pat) == CHOOSE i \in 1..Len(LinePatterns) : LinePatterns[i] = pat

FirstMatch(text) ==
    CHOOSE pat \in text.matches : \A q \in text.matches : Rank(pat) <= Rank(q)

\* The line has been through process_line (the backlog was read, or the live
\* reader has read it).
Processed == backlog_end = 1 \/ (backlog_end = 0 /\ tail_pos = 1)

C30_FirstMatchWins ==
    /\ Len(emitted) <= 1
    /\ Len(posted) <= 1
    /\ Processed => (emitted = <<1>> <=> log_lines[1].matches # {})
    /\ log_lines[1].blank => emitted = << >>
    /\ \A i \in 1..Len(posted) :
          LET e == posted[i]
              text == log_lines[e.line]
              first == FirstMatch(text)
          IN  /\ text.matches # {}
              /\ e.pct \in 0..100
              /\ first = "ostree_receiving_objects"
                    => e.sig = "download_progress" /\ e.pct = Max(0, Min(100, text.obj))
              /\ first = "progress"
                    => e.sig = "download_progress" /\ e.pct = Max(0, Min(100, text.prog))
              /\ first \in {"download_complete", "install_started", "need_reboot",
                            "install_complete"}
                    => e.sig = "phase_event" /\ e.event = first
              /\ first = "reboot" => e.sig = "phase_event" /\ e.event = "rebooting"
              /\ "need_reboot" \in text.matches => e.event # "install_complete"

\* A NEED_COMPLETION line that also holds the about-to-reboot text has given
\* need_reboot.
C30_Witness ==
    /\ log_lines[1].matches = {"need_reboot", "install_complete", "reboot"}
    /\ Len(posted) = 1
    /\ posted[1].event = "need_reboot"

\* The state-machine state of a MainWindow record: phase, progress, the two
\* fields of the progress math, the synthetic timer and the reboot guard.
MachineState(s) ==
    <<s.phase, s.phase_progress, s.starting_pct, s.last_raw_pct, s.phase_timer,
      s.reboot_prompt_shown>>

\* C31: repeated log lines are harmless.  In every reachable state, handling
\* a raw progress value or a phase marker a second time right after the first
\* leaves phase, phase_progress, starting_pct, last_raw_pct, the timer and
\* the reboot guard as the first handling left them; once need_reboot has
\* been handled in an active flow the guard is set, and handling need_reboot
\* with the guard set opens no box.
C31_RepeatedEventsHarmless ==
    /\ [](\A p \in AllRaw :
            LET once == download_progress_raw(UI, p)
            IN  MachineState(download_progress_raw(once, p)) = MachineState(once))
    /\ [](\A e \in Markers :
            LET once == phase_event(UI, e)
            IN  MachineState(phase_event(once, e)) = MachineState(once))
    /\ [](phase # "idle" => phase_event(UI, "need_reboot").reboot_prompt_shown)
    /\ [][(LogPhase("need_reboot") /\ reboot_prompt_shown)
            => UNCHANGED <<modals, reboot_prompts>>]_vars

\* The first real value has been handled and has moved the bar to itself, the
\* reboot prompt of the flow is open, and a repetition of the value or of the
\* need_reboot marker would be accepted, not filtered.
C31_Witness ==
    /\ phase = "installing"
    /\ starting_pct = <<75>>
    /\ last_raw_pct = 75
    /\ reboot_prompt_shown
    /\ modals # << >>
    /\ Top(modals) = "reboot"
    /\ download_progress_raw(UI, 75).last_raw_pct = 75
    /\ download_progress_raw(UI, 75).phase = "downloading"

\* The position of a phase in the order of the flow.
PhaseOrder(ph) ==
    CASE ph = "idle" -> 0
      [] ph = "preparing" -> 1
      [] ph = "downloading" -> 2
      [] ph = "downloaded" -> 3
      [] ph = "installing" -> 4
      [] ph = "need_reboot" -> 5

\* C32: within one update flow the phase never moves backwards in the order
\* preparing < downloading < downloaded < installing < need_reboot, whatever
\* the order of the log events: a step that neither starts a flow (phase
\* preparing) nor resets to idle leaves the phase at the same or a later
\* position.
C32_PhaseNeverBackwards ==
    [][phase' \in {"downloading", "downloaded", "installing", "need_reboot"}
         => PhaseOrder(phase') >= PhaseOrder(phase)]_vars

\* C33: the synthetic (Stage A) timer runs only in phase preparing.  In every
\* reachable state a running timer implies phase = preparing; every step that
\* leaves preparing leaves the timer stopped; and the timer goes from stopped
\* to running only in a step that enters preparing.
C33_TimerOnlyInPreparing ==
    /\ [](phase_timer => phase = "preparing")
    /\ [][(phase = "preparing" /\ phase' # "preparing") => ~phase_timer']_vars
    /\ [][(~phase_timer /\ phase_timer') => (phase # "preparing" /\ phase' = "preparing")]_vars

\* A flow has left preparing for downloading by its first real value, before
\* any completion marker, and the timer is stopped.
C33_Witness ==
    /\ phase = "downloading"
    /\ ~completion_seen
    /\ starting_pct = <<75>>
    /\ phase_progress = 2 * 75
    /\ ~phase_timer

\* C34: the progress value is bounded by the phase.  In every reachable
\* state: idle implies progress 0, no starting_pct and last_raw_pct = -1;
\* preparing implies progress at most 50; downloaded, installing and
\* need_reboot imply progress 95; progress is never above 95, and no raw
\* value 0..100 handled in the state would raise it above 95.
C34_ProgressBoundedByPhase ==
    /\ phase = "idle"
         => (phase_progress = 0 /\ starting_pct = << >> /\ last_raw_pct = -1)
    /\ phase = "preparing" => phase_progress <= 2 * 50
    /\ phase \in {"downloaded", "installing", "need_reboot"} => phase_progress = 2 * 95
    /\ phase_progress <= 2 * 95
    /\ \A p \in AllRaw : download_progress_raw(UI, p).phase_progress <= 2 * 95

\* A flow whose download reported 75 and then 100 (the bar at 94 at most) has
\* been completed by a marker, which set the bar to 95.
C34_Witness ==
    /\ phase = "installing"
    /\ starting_pct = <<75>>
    /\ last_raw_pct = 100
    /\ phase_progress = 2 * 95

\* C35: no line appended after the backlog read is skipped.  Once the live
\* reader is open, every line that was appended after the backlog was read
\* and that lies behind the reader's position has been passed to
\* process_line exactly once: if it carries a marker or a percentage, its
\* event has been emitted exactly once.
C35_NoAppendedLineSkipped ==
    (log_task = "tailing" /\ backlog_end >= 0) =>
        \A i \in (backlog_end + 1)..tail_pos :
            MarkerLine(log_lines[i]) => Occurrences(emitted, i) = 1

\* C36: every manual check terminates.  The check timer runs only while
\* manual_check_active is true, and whenever manual_check_active is true it
\* is false again later.
C36_CheckTerminates ==
    /\ [](check_timeout => manual_check_active)
    /\ manual_check_active ~> ~manual_check_active

\* The step runs a scheduled setMode, consent or checkForUpdates command whose
\* agent call raises.
AgentCallFails ==
    /\ cmds # << >>
    /\ Head(cmds).op \in {"setMode", "sendConsent", "checkForUpdates"}
    /\ RunCommand(FALSE, "ok")

====
